---- MODULE Spec2Model ----
(***************************************************************************)
(* Model of Movie_Recommendation_Algorithm.py: build_graph, dfs,           *)
(* calculate_score and recommend_movie.                                    *)
(*                                                                         *)
(* Items are strings.  A friend's history is a Python list, modelled as a  *)
(* sequence; the code reads it only through `movie in friend` and          *)
(* `set(friend)`.  The graph is a defaultdict(set), modelled as a function *)
(* whose DOMAIN is the set of keys; reading a missing key inserts it.      *)
(* Python floats are IEEE-754 doubles: a positive float is a 53-bit        *)
(* mantissa, kept in two limbs, and a binary exponent; division rounds to  *)
(* nearest, ties to even.                                                  *)
(***************************************************************************)
EXTENDS Integers, Sequences, FiniteSets, TLC

\* ------------------------------------------------------------------ bounds
\* Item universe and sizes of the exhaustively enumerated inputs.
Items == {"A", "B", "C"}
MaxMovies == 2
MaxPairs == 2
MaxFriends == 1
MaxSeen == 2
\* Sizes of the inputs of the specification of dfs alone.
DfsMaxPairs == 3
\* Sizes of the inputs of the specification of whole calls.
FnMaxPairs == 1
FnMaxFriends == 2
\* The star-shaped family: two catalog items with outside neighbours and
\* friends whose histories are prefixes of one watch order.
StarFriends == 4

NoMovie == "No movie to recommend"
ZeroDivisionError == "ZeroDivisionError"
KeyError == "KeyError"

\* ------------------------------------------------------- IEEE-754 doubles
\* Width of a double's significand.
MantBits == 53
LimbBase == 2^27
HiMin == 2^(MantBits - 28)

\* int 0 and float 0.0 (equal in Python).
Zero == [hi |-> 0, lo |-> 0, e |-> 0]

\* Two-limb naturals <<hi, lo>>, value hi * LimbBase + lo.
Geq(x, y) == x[1] > y[1] \/ (x[1] = y[1] /\ x[2] >= y[2])
Sub(x, y) ==
    IF x[2] >= y[2] THEN <<x[1] - y[1], x[2] - y[2]>>
    ELSE <<x[1] - y[1] - 1, x[2] + LimbBase - y[2]>>
Dbl(x) == <<2 * x[1] + ((2 * x[2]) \div LimbBase), (2 * x[2]) % LimbBase>>
Inc(x) == IF x[2] + 1 = LimbBase THEN <<x[1] + 1, 0>> ELSE <<x[1], x[2] + 1>>

RECURSIVE Normalize(_, _)
Normalize(h, e) ==
    IF h >= HiMin THEN [hi |-> h, lo |-> 0, e |-> e] ELSE Normalize(2 * h, e - 1)

\* float(n) for a small natural n: exact.
FromInt(n) == IF n = 0 THEN Zero ELSE Normalize(n, -27)

\* Long division: n more quotient bits of r / d appended to q, for
\* st = <<r, q>>; yields <<remainder, quotient>>.
RECURSIVE DivBits(_, _, _)
DivBits(st, d, n) ==
    IF n = 0 THEN st
    ELSE IF Geq(Dbl(st[1]), d)
    THEN DivBits(<<Sub(Dbl(st[1]), d), Inc(Dbl(st[2]))>>, d, n - 1)
    ELSE DivBits(<<Dbl(st[1]), Dbl(st[2])>>, d, n - 1)

\* a / b for positive doubles, rounded to nearest, ties to even.
FDivPos(a, b) ==
    LET ma == <<a.hi, a.lo>>
        mb == <<b.hi, b.lo>>
        ge == Geq(ma, mb)
        n0 == IF ge THEN MantBits - 1 ELSE MantBits
        rq == DivBits(IF ge THEN <<Sub(ma, mb), <<0, 1>>>> ELSE <<ma, <<0, 0>>>>,
                      mb, n0)
        g2 == Dbl(rq[1])
        guard == Geq(g2, mb)
        rest == IF guard THEN Sub(g2, mb) ELSE g2
        sticky == rest # <<0, 0>>
        q == rq[2]
        up == guard /\ (sticky \/ q[2] % 2 = 1)
        qr == IF up THEN Inc(q) ELSE q
        ex == a.e - b.e - n0
    IN IF qr[1] = 2 * HiMin
       THEN [hi |-> HiMin, lo |-> 0, e |-> ex + 1]
       ELSE [hi |-> qr[1], lo |-> qr[2], e |-> ex]

\* Python's `/`: raises ZeroDivisionError on a zero divisor.
TrueDiv(a, b) ==
    IF b = Zero THEN [err |-> ZeroDivisionError, val |-> Zero]
    ELSE IF a = Zero THEN [err |-> "", val |-> Zero]
    ELSE [err |-> "", val |-> FDivPos(a, b)]

\* a > b for non-negative doubles.
FGreater(a, b) ==
    IF a = Zero THEN FALSE
    ELSE IF b = Zero THEN TRUE
    ELSE a.e + 0 > b.e \/ (a.e = b.e /\ Geq(<<a.hi, a.lo>>, <<b.hi, b.lo>>)
                           /\ <<a.hi, a.lo>> # <<b.hi, b.lo>>)

\* ------------------------------------------------------------ build_graph
\* defaultdict(set): graph[k] on a missing key inserts k with set().
Touch(g, k) == IF k \in DOMAIN g THEN g ELSE [x \in DOMAIN g \cup {k} |-> IF x = k THEN {} ELSE g[x]]
\* graph[k].add(v)
GraphAdd(g, k, v) ==
    LET t == Touch(g, k) IN [t EXCEPT ![k] = t[k] \cup {v}]

EmptyGraph == [x \in {} |-> {}]

\* The pair entered in one direction only.
AddPairOneWay(g, a, b) ==
    GraphAdd(GraphAdd(GraphAdd(g, a, b), a, a), b, b)
AddPair(g, a, b) ==
    GraphAdd(GraphAdd(GraphAdd(GraphAdd(g, a, b), b, a), a, a), b, b)

RECURSIVE AddPairs(_, _, _)
AddPairs(g, sims, k) ==
    IF k > Len(sims) THEN g
    ELSE AddPairs(AddPair(g, sims[k][1], sims[k][2]), sims, k + 1)

RECURSIVE AddMovies(_, _, _)
AddMovies(g, ms, k) ==
    IF k > Len(ms) THEN g
    ELSE AddMovies(IF ms[k] \notin DOMAIN g THEN GraphAdd(g, ms[k], ms[k]) ELSE g,
                   ms, k + 1)

build_graph(ms, sims) == AddMovies(AddPairs(EmptyGraph, sims, 1), ms, 1)

\* -------------------------------------------------------------------- dfs
\* The recursive traversal as one evaluation, the adjacency sets iterated
\* in a fixed order.  Yields the returned set, the visited set and the
\* graph (which a read of a missing key changes).
\* A visited check that never fires.
AlreadyVisitedNever(node, vis) == FALSE
\* if node in visited: return set()
AlreadyVisited(node, vis) == node \in vis

RECURSIVE dfs(_, _, _)
RECURSIVE dfsLoop(_, _, _, _)
dfs(node, g, vis) ==
    IF AlreadyVisited(node, vis) THEN [res |-> {}, vis |-> vis, g |-> g]
    ELSE LET g1 == Touch(g, node)
         IN dfsLoop(g1[node], g1, vis \cup {node}, {node})
dfsLoop(todo, g, vis, res) ==
    IF todo = {} THEN [res |-> res, vis |-> vis, g |-> g]
    ELSE LET nb == CHOOSE x \in todo : TRUE
             r == dfs(nb, g, vis)
         IN dfsLoop(todo \ {nb}, r.g, r.vis, res \cup r.res)

\* -------------------------------------------------------- calculate_score
ToSet(s) == {s[k] : k \in DOMAIN s}

\* The movie compared with the whole history, not looked up in it.
SeenFriendsWhole(movie, fs) == Cardinality({k \in DOMAIN fs : fs[k] = <<movie>>})
\* sum([1 for friend in friends if movie in friend])
SeenFriends(movie, fs) == Cardinality({k \in DOMAIN fs : movie \in ToSet(fs[k])})

\* len(set(friend) & similar_movies)
SimilarSeen(friend, similar) == Cardinality(ToSet(friend) \cap similar)

\* The loop left at the first friend without overlap.
RECURSIVE CountSimilarBreak(_, _, _, _, _)
CountSimilarBreak(fs, similar, k, total, counted) ==
    IF k > Len(fs) THEN <<total, counted>>
    ELSE IF SimilarSeen(fs[k], similar) > 0
    THEN CountSimilarBreak(fs, similar, k + 1,
                           total + SimilarSeen(fs[k], similar), counted + 1)
    ELSE <<total, counted>>
\* The loop over friends: <<total_similar_seen, friends_counted>>.
RECURSIVE CountSimilar(_, _, _, _, _)
CountSimilar(fs, similar, k, total, counted) ==
    IF k > Len(fs) THEN <<total, counted>>
    ELSE IF SimilarSeen(fs[k], similar) > 0
    THEN CountSimilar(fs, similar, k + 1, total + SimilarSeen(fs[k], similar), counted + 1)
    ELSE CountSimilar(fs, similar, k + 1, total, counted)

\* The guard off by one, and the guard left out.
NoOverlapGuardOffByOne(counted) == counted <= 1
NoOverlapGuardNever(counted) == FALSE
\* if friends_counted == 0: return 0, 0
NoOverlapGuard(counted) == counted = 0

Score(s, u, err) == [score |-> s, uniqueness |-> u, err |-> err]

\* Lines 75-90, given the set dfs returned.
ScoreFrom(movie, fs, component) ==
    IF movie \notin component THEN Score(0, Zero, KeyError)
    ELSE LET similar == component \ {movie}
             tc == CountSimilar(fs, similar, 1, 0, 0)
         IN IF NoOverlapGuard(tc[2]) THEN Score(0, Zero, "")
            ELSE LET mean == TrueDiv(FromInt(tc[1]), FromInt(tc[2]))
                 IN IF mean.err # "" THEN Score(0, Zero, mean.err)
                    ELSE LET u == TrueDiv(FromInt(1), mean.val)
                         IN Score(SeenFriends(movie, fs), u.val, u.err)

calculate_score(movie, fs, g) ==
    IF SeenFriends(movie, fs) = 0 THEN Score(0, Zero, "")
    ELSE ScoreFrom(movie, fs, dfs(movie, g, {}).res)

\* -------------------------------------------------------- recommend_movie
\* score / uniqueness, appended to recommendations.
AppendRatio(recs, movie, ratio) ==
    [recs |-> IF ratio.err = "" THEN Append(recs.recs, [movie |-> movie, key |-> ratio.val])
              ELSE recs.recs,
     err |-> ratio.err]

\* The filter inverted: the items of novelty 0 are the ones divided.
Append1Inverted(recs, movie, sc) ==
    IF sc.err # "" THEN [recs |-> recs.recs, err |-> sc.err]
    ELSE IF sc.uniqueness = Zero
    THEN AppendRatio(recs, movie, TrueDiv(FromInt(sc.score), sc.uniqueness))
    ELSE recs
\* if uniqueness != 0: recommendations.append((movie, score / uniqueness))
Append1(recs, movie, sc) ==
    IF sc.err # "" THEN [recs |-> recs.recs, err |-> sc.err]
    ELSE IF sc.uniqueness # Zero
    THEN AppendRatio(recs, movie, TrueDiv(FromInt(sc.score), sc.uniqueness))
    ELSE recs

\* max(recommendations, key=lambda x: x[1]): the first of the greatest.
RECURSIVE MaxByKey(_, _, _)
MaxByKey(recs, k, best) ==
    IF k > Len(recs) THEN best
    ELSE MaxByKey(recs, k + 1, IF FGreater(recs[k].key, best.key) THEN recs[k] ELSE best)

Select(recs) ==
    IF recs = <<>> THEN NoMovie ELSE MaxByKey(recs, 2, recs[1]).movie

\* One turn of the loop over movies (lines 111-113).
ScoreOne(recs, movie, fs, g) == Append1(recs, movie, calculate_score(movie, fs, g))

RECURSIVE ScoreAll(_, _, _, _, _)
ScoreAll(ms, fs, g, k, recs) ==
    IF k > Len(ms) \/ recs.err # "" THEN recs
    ELSE ScoreAll(ms, fs, g, k + 1, ScoreOne(recs, ms[k], fs, g))

recommend_movie(ms, sims, fs) ==
    LET all == ScoreAll(ms, fs, build_graph(ms, sims), 1, [recs |-> <<>>, err |-> ""])
    IN IF all.err # "" THEN all.err ELSE Select(all.recs)

\* ---------------------------------------------------------------- inputs
SeqsUpTo(S, n) == UNION {[1..k -> S] : k \in 0..n}
Pairs == Items \X Items
Histories == SeqsUpTo(Items, MaxSeen)

\* ----------------------------------------------------------------- state
VARIABLES
    movies,            \* the catalog (a list)
    similarities,      \* the list of pairs
    friends,           \* the list of friends' histories
    pc,                \* "start", "loop", "dfs", "done" or "permuted"
    entry,             \* the function the caller called
    graph,             \* the defaultdict
    built,             \* the graph as build_graph returned it
    i,                 \* recommend_movie's position in movies
    movie,             \* calculate_score's movie, or dfs's start
    recommendations,   \* [recs, err]
    stack,             \* dfs's frames: [node, todo, result]
    visited,           \* dfs's visited set
    expanded,          \* how often each node's adjacency set was iterated in this call of dfs
    component,         \* what the last top-level dfs returned
    sc,                \* what the last calculate_score returned
    ret,               \* what recommend_movie returned, or the error it raised
    calls,             \* calls of recommend_movie so far
    first              \* the previous call of recommend_movie: [ret, friends]

vars == <<movies, similarities, friends, pc, entry, graph, built, i, movie,
          recommendations, stack, visited, expanded, component, sc, ret, calls, first>>

inputs == <<movies, similarities, friends>>
NoRecs == [recs |-> <<>>, err |-> ""]
NoCount == [x \in {} |-> 0]
NoCall == [ret |-> "", friends |-> <<>>]

Fresh ==
    /\ pc = "start" /\ entry = ""
    /\ graph = EmptyGraph /\ built = EmptyGraph
    /\ i = 0 /\ movie = ""
    /\ recommendations = NoRecs
    /\ stack = <<>> /\ visited = {} /\ expanded = NoCount
    /\ component = {} /\ sc = Score(0, Zero, "")
    /\ ret = "" /\ calls = 0 /\ first = NoCall

Init ==
    /\ movies \in SeqsUpTo(Items, MaxMovies)
    /\ similarities \in SeqsUpTo(Pairs, MaxPairs)
    /\ friends \in SeqsUpTo(Histories, MaxFriends)
    /\ Fresh

\* ------------------------------------------------------ dfs, step by step
Frame(node, g) == [node |-> node, todo |-> g[node], result |-> {node}]
Count(f, n) == [x \in DOMAIN f \cup {n} |->
                  IF x \in DOMAIN f THEN f[x] + (IF x = n THEN 1 ELSE 0) ELSE 1]
Top == stack[Len(stack)]
SetTop(st, fr) == [st EXCEPT ![Len(st)] = fr]

\* dfs(start, g, set()): lines 43-47 of the outermost call.
StartDfs(start, g) ==
    /\ visited' = {start}
    /\ graph' = Touch(g, start)
    /\ stack' = <<Frame(start, graph')>>
    /\ expanded' = Count(NoCount, start)
    /\ movie' = start
    /\ pc' = "dfs"

\* The loop left at the first neighbour already visited.
DfsStepBreak ==
    /\ pc = "dfs" /\ Top.todo # {}
    /\ \E nb \in Top.todo :
         IF AlreadyVisited(nb, visited)
         THEN /\ stack' = SetTop(stack, [Top EXCEPT !.todo = {}])
              /\ UNCHANGED <<visited, graph, expanded>>
         ELSE /\ visited' = visited \cup {nb}
              /\ graph' = Touch(graph, nb)
              /\ stack' = Append(SetTop(stack, [Top EXCEPT !.todo = @ \ {nb}]),
                                 Frame(nb, graph'))
              /\ expanded' = Count(expanded, nb)
    /\ UNCHANGED <<inputs, pc, entry, built, i, movie, recommendations,
                   component, sc, ret, calls, first>>

\* One turn of `for neighbor in graph[node]: result |= dfs(neighbor, ...)`,
\* the set iterated in any order: the callee returns set() at once, or
\* starts its own loop.
DfsStep ==
    /\ pc = "dfs" /\ Top.todo # {}
    /\ \E nb \in Top.todo :
         LET rest == SetTop(stack, [Top EXCEPT !.todo = @ \ {nb}])
         IN IF AlreadyVisited(nb, visited)
            THEN /\ stack' = rest
                 /\ UNCHANGED <<visited, graph, expanded>>
            ELSE /\ visited' = visited \cup {nb}
                 /\ graph' = Touch(graph, nb)
                 /\ stack' = Append(rest, Frame(nb, graph'))
                 /\ expanded' = Count(expanded, nb)
    /\ UNCHANGED <<inputs, pc, entry, built, i, movie, recommendations,
                   component, sc, ret, calls, first>>

\* `return result` of an inner call: the caller's `result |=`.
DfsReturn ==
    /\ pc = "dfs" /\ Top.todo = {} /\ Len(stack) > 1
    /\ LET caller == stack[Len(stack) - 1]
       IN stack' = SetTop(SubSeq(stack, 1, Len(stack) - 1),
                          [caller EXCEPT !.result = @ \cup Top.result])
    /\ UNCHANGED <<inputs, pc, entry, graph, built, i, movie, recommendations,
                   visited, expanded, component, sc, ret, calls, first>>

\* `return result` of the outermost call, to a caller of dfs itself.
DfsDone ==
    /\ pc = "dfs" /\ Top.todo = {} /\ Len(stack) = 1 /\ entry = "dfs"
    /\ component' = Top.result
    /\ stack' = <<>>
    /\ pc' = "done"
    /\ UNCHANGED <<inputs, entry, graph, built, i, movie, recommendations,
                   visited, expanded, sc, ret, calls, first>>

\* ... to calculate_score called directly: lines 75-90.
ScoreDone ==
    /\ pc = "dfs" /\ Top.todo = {} /\ Len(stack) = 1 /\ entry = "calculate_score"
    /\ component' = Top.result
    /\ sc' = ScoreFrom(movie, friends, Top.result)
    /\ stack' = <<>>
    /\ pc' = "done"
    /\ UNCHANGED <<inputs, entry, graph, built, i, movie, recommendations,
                   visited, expanded, ret, calls, first>>

\* ... to calculate_score called by recommend_movie: lines 75-90, 112-113.
MovieDone ==
    /\ pc = "dfs" /\ Top.todo = {} /\ Len(stack) = 1 /\ entry = "recommend_movie"
    /\ component' = Top.result
    /\ sc' = ScoreFrom(movie, friends, Top.result)
    /\ recommendations' = Append1(recommendations, movie, sc')
    /\ stack' = <<>>
    /\ IF recommendations'.err # ""
       THEN /\ ret' = recommendations'.err
            /\ pc' = "done"
            /\ UNCHANGED i
       ELSE /\ i' = i + 1
            /\ pc' = "loop"
            /\ UNCHANGED ret
    /\ UNCHANGED <<inputs, entry, graph, built, movie, visited, expanded, calls, first>>

\* ------------------------------------------- recommend_movie, step by step
\* Lines 107-108.
Recommend ==
    /\ pc = "start"
    /\ graph' = build_graph(movies, similarities)
    /\ built' = graph'
    /\ recommendations' = NoRecs
    /\ i' = 1
    /\ entry' = "recommend_movie"
    /\ calls' = calls + 1
    /\ pc' = "loop"
    /\ UNCHANGED <<inputs, movie, stack, visited, expanded, component, sc, ret, first>>

\* Lines 110-111 and 70-74: the next movie; nobody saw it, or its dfs starts.
NextMovie ==
    /\ pc = "loop" /\ i <= Len(movies)
    /\ IF SeenFriends(movies[i], friends) = 0
       THEN /\ sc' = Score(0, Zero, "")
            /\ recommendations' = Append1(recommendations, movies[i], sc')
            /\ movie' = movies[i]
            /\ i' = i + 1
            /\ UNCHANGED <<pc, graph, stack, visited, expanded>>
       ELSE /\ StartDfs(movies[i], graph)
            /\ UNCHANGED <<sc, recommendations, i>>
    /\ UNCHANGED <<inputs, entry, built, component, ret, calls, first>>

\* Lines 115-119.
Return ==
    /\ pc = "loop" /\ i > Len(movies)
    /\ ret' = Select(recommendations.recs)
    /\ pc' = "done"
    /\ UNCHANGED <<inputs, entry, graph, built, i, movie, recommendations, stack,
                   visited, expanded, component, sc, calls, first>>

\* The caller calls recommend_movie once more, with the same arguments.
CallAgain ==
    /\ pc = "done" /\ entry = "recommend_movie" /\ calls = 1
    /\ first' = [ret |-> ret, friends |-> friends]
    /\ pc' = "start" /\ entry' = ""
    /\ graph' = EmptyGraph /\ built' = EmptyGraph
    /\ i' = 0 /\ movie' = ""
    /\ recommendations' = NoRecs
    /\ stack' = <<>> /\ visited' = {} /\ expanded' = NoCount
    /\ component' = {} /\ sc' = Score(0, Zero, "")
    /\ ret' = ""
    /\ UNCHANGED <<inputs, calls>>

Next == Recommend \/ NextMovie \/ DfsStep \/ DfsReturn \/ MovieDone \/ Return \/ CallAgain

Spec == Init /\ [][Next]_vars

\* ------------------------------- dfs and calculate_score, called directly
\* graph = build_graph(movies, similarities); dfs(start, graph, set())
CallDfs ==
    /\ pc = "start"
    /\ \E start \in Items :
         /\ built' = build_graph(movies, similarities)
         /\ StartDfs(start, built')
    /\ entry' = "dfs"
    /\ UNCHANGED <<inputs, i, recommendations, component, sc, ret, calls, first>>

\* graph = build_graph(movies, similarities); calculate_score(m, friends, graph)
CallScore ==
    /\ pc = "start"
    /\ \E m \in Items :
         /\ built' = build_graph(movies, similarities)
         /\ IF SeenFriends(m, friends) = 0
            THEN /\ sc' = Score(0, Zero, "")
                 /\ graph' = built'
                 /\ movie' = m
                 /\ pc' = "done"
                 /\ UNCHANGED <<stack, visited, expanded>>
            ELSE /\ StartDfs(m, built')
                 /\ UNCHANGED sc
    /\ entry' = "calculate_score"
    /\ UNCHANGED <<inputs, i, recommendations, component, ret, calls, first>>

NextApi == CallDfs \/ CallScore \/ DfsStep \/ DfsReturn \/ DfsDone \/ ScoreDone

SpecApi == Init /\ [][NextApi]_vars

\* dfs alone, on every graph build_graph makes of the inputs.
InitDfs ==
    /\ movies \in SeqsUpTo(Items, MaxMovies)
    /\ similarities \in SeqsUpTo(Pairs, DfsMaxPairs)
    /\ friends = <<>>
    /\ Fresh

NextDfs == CallDfs \/ DfsStep \/ DfsReturn \/ DfsDone

SpecDfs == InitDfs /\ [][NextDfs]_vars

\* ------------------------------------------- recommend_movie, call by call
\* recommend_movie(movies, similarities, friends), as one step.
Call ==
    /\ pc = "start"
    /\ ret' = recommend_movie(movies, similarities, friends)
    /\ entry' = "recommend_movie"
    /\ calls' = 1
    /\ pc' = "done"
    /\ UNCHANGED <<inputs, graph, built, i, movie, recommendations, stack, visited,
                   expanded, component, sc, first>>

Permuted(fs, p) == [k \in DOMAIN fs |-> fs[p[k]]]

\* The caller calls again, the friends in another order.
CallPermuted ==
    /\ pc = "done" /\ calls = 1
    /\ \E p \in Permutations(DOMAIN friends) : friends' = Permuted(friends, p)
    /\ first' = [ret |-> ret, friends |-> friends]
    /\ ret' = recommend_movie(movies, similarities, friends')
    /\ calls' = 2
    /\ pc' = "permuted"
    /\ UNCHANGED <<movies, similarities, entry, graph, built, i, movie, recommendations,
                   stack, visited, expanded, component, sc>>

InitFn ==
    /\ movies \in SeqsUpTo(Items, MaxMovies)
    /\ similarities \in SeqsUpTo(Pairs, FnMaxPairs)
    /\ friends \in SeqsUpTo(Histories, FnMaxFriends)
    /\ Fresh

NextFn == Call \/ CallPermuted

SpecFn == InitFn /\ [][NextFn]_vars

\* Two catalog items, each with neighbours outside the catalog; every
\* friend's history is a prefix of one watch order.
WatchOrder == <<"B", "b1", "b2", "b3", "A", "a1", "a2", "a3", "a4">>
StarPairs == << <<"A", "a1">>, <<"A", "a2">>, <<"A", "a3">>, <<"A", "a4">>,
                <<"B", "b1">>, <<"B", "b2">>, <<"B", "b3">> >>
Prefixes == {SubSeq(WatchOrder, 1, n) : n \in 0..Len(WatchOrder)}

InitStar ==
    /\ movies \in {<<"A", "B">>, <<"B", "A">>}
    /\ similarities = StarPairs
    /\ friends \in SeqsUpTo(Prefixes, StarFriends)
    /\ Fresh

NextStar == Call

SpecStar == InitStar /\ [][NextStar]_vars

\* ------------------------------------------------------------- properties
\* What the claims speak of, stated over the inputs alone.
Catalog == ToSet(movies)
Similar(a, b) ==
    \E k \in DOMAIN similarities :
        similarities[k] = <<a, b>> \/ similarities[k] = <<b, a>>
PairItems == UNION {{similarities[k][1], similarities[k][2]} : k \in DOMAIN similarities}

\* The connected component of an item under the similarity pairs.
RECURSIVE Closure(_)
Closure(S) ==
    LET more == S \cup {b \in PairItems : \E a \in S : Similar(a, b)}
    IN IF more = S THEN S ELSE Closure(more)
Reach(m) == Closure({m})
Cluster(m) == Reach(m) \ {m}

Saw(fs, k, x) == \E j \in DOMAIN fs[k] : fs[k][j] = x
Popularity(fs, m) == Cardinality({k \in DOMAIN fs : Saw(fs, k, m)})
Overlap(fs, k, m) == Cardinality({x \in Cluster(m) : Saw(fs, k, x)})
Overlapping(fs, m) == Cardinality({k \in DOMAIN fs : Overlap(fs, k, m) > 0})
RECURSIVE SumOverlap(_, _, _)
SumOverlap(fs, k, m) ==
    IF k = 0 THEN 0 ELSE Overlap(fs, k, m) + SumOverlap(fs, k - 1, m)
TotalOverlap(fs, m) == SumOverlap(fs, Len(fs), m)

Candidate(m) == Popularity(friends, m) >= 1 /\ Overlapping(friends, m) >= 1
\* rank(a) >= rank(b), the rank being popularity * total / overlapping.
RankGeq(a, b) ==
    Popularity(friends, a) * TotalOverlap(friends, a) * Overlapping(friends, b)
        >= Popularity(friends, b) * TotalOverlap(friends, b) * Overlapping(friends, a)
Best(k) ==
    /\ Candidate(movies[k])
    /\ \A j \in DOMAIN movies : Candidate(movies[j]) => RankGeq(movies[k], movies[j])
FirstBest ==
    IF \E k \in DOMAIN movies : Best(k)
    THEN movies[CHOOSE k \in DOMAIN movies : Best(k) /\ \A j \in 1..(k - 1) : ~Best(j)]
    ELSE NoMovie

Returned == pc = "done" /\ entry = "recommend_movie"
Covered == movies # <<>> /\ \A m \in Catalog : Popularity(friends, m) >= 1
FullyConnected == \A a, b \in Catalog : a # b => Similar(a, b)

\* C1: recommend_movie returns the first catalog item, in catalog order,
\* among the candidates (seen by a peer, cluster overlapped by a peer) whose
\* rank popularity * total overlap / overlapping peers is greatest.
C1_FirstOfGreatestRank == Returned => ret = FirstBest
\* What is left of C1 when ties are set aside: the sentinel when there is no
\* candidate, and otherwise a candidate of the greatest rank.
GreatestRankReturned ==
    Returned =>
        IF \E k \in DOMAIN movies : Best(k)
        THEN \E k \in DOMAIN movies : Best(k) /\ ret = movies[k]
        ELSE ret = NoMovie

\* C2, as claimed: peers cover every item of a non-empty catalog => a
\* catalog member is returned.
C2_CoveredReturnsMember == (Returned /\ Covered) => ret \in Catalog
\* C2, amended: peers cover every item of a non-empty catalog and some
\* peer's history meets the cluster of some catalog item => a catalog
\* member is returned.
C2_CoveredOverlappedReturnsMember ==
    (Returned /\ Covered /\ \E m \in Catalog : Overlapping(friends, m) >= 1)
        => ret \in Catalog
C2_Witness ==
    /\ Returned /\ Covered /\ Len(movies) = 2 /\ movies[1] # movies[2]
    /\ \E m \in Catalog : Overlapping(friends, m) >= 1
    /\ ret \in Catalog

\* C3, as claimed: all catalog items pairwise similar and some peer's
\* history meets the cluster of some catalog item => a catalog member is
\* returned.
C3_ConnectedReturnsMember ==
    (Returned /\ FullyConnected /\ \E m \in Catalog : Overlapping(friends, m) >= 1)
        => ret \in Catalog
\* C3, amended: all catalog items pairwise similar and some peer's history
\* meets the cluster of a catalog item that a peer has consumed => a catalog
\* member is returned.
C3_ConnectedSeenReturnsMember ==
    (Returned /\ FullyConnected /\ \E m \in Catalog : Candidate(m)) => ret \in Catalog
C3_Witness ==
    /\ Returned /\ FullyConnected /\ Len(movies) = 2 /\ movies[1] # movies[2]
    /\ \E m \in Catalog : Candidate(m)
    /\ \E m \in Catalog : ~Candidate(m)
    /\ ret \in Catalog

\* C4: an empty catalog, an empty peer list or an empty pair list => no
\* item is kept and the sentinel is returned, not an error.
C4_DegenerateReturnsSentinel ==
    (Returned /\ (movies = <<>> \/ friends = <<>> \/ similarities = <<>>))
        => (ret = NoMovie /\ recommendations = NoRecs)
C4_Witness ==
    /\ Returned /\ similarities = <<>> /\ Covered /\ calls = 1
    /\ component = {movies[Len(movies)]}
    /\ ret = NoMovie

\* C5: dfs from a key of the built graph returns exactly the connected
\* component of the start under the similarity pairs.
C5_DfsIsComponent ==
    (pc = "done" /\ entry = "dfs" /\ movie \in DOMAIN built) => component = Reach(movie)
C5_Witness ==
    /\ pc = "done" /\ entry = "dfs" /\ movie \in DOMAIN built
    /\ Cardinality(component) = 3
    /\ Len(similarities) = 2
    /\ \E x \in component : ~Similar(movie, x) /\ x # movie

\* C6: a second call of recommend_movie with the same arguments returns
\* what the first returned, whatever the order the adjacency sets are
\* iterated in.
C6_SameInputsSameOutput ==
    (Returned /\ calls = 2) => (ret = first.ret /\ friends = first.friends)
C6_Witness ==
    /\ Returned /\ calls = 2 /\ ret \in Catalog
    /\ Len(recommendations.recs) = 2
    /\ recommendations.recs[1].key = recommendations.recs[2].key
    /\ recommendations.recs[1].movie # recommendations.recs[2].movie
    /\ Cardinality(component) = 3

\* C7: recommend_movie returns the same for a peer list and for any
\* permutation of it, and each item's popularity count, total overlap and
\* number of overlapping peers are the same.
SameCounts(fs, gs, g) ==
    \A m \in Items :
        /\ SeenFriends(m, fs) = SeenFriends(m, gs)
        /\ CountSimilar(fs, dfs(m, g, {}).res \ {m}, 1, 0, 0)
             = CountSimilar(gs, dfs(m, g, {}).res \ {m}, 1, 0, 0)
C7_PeerOrderIrrelevant ==
    pc = "permuted" =>
        /\ ret = first.ret
        /\ SameCounts(friends, first.friends, build_graph(movies, similarities))
C7_Witness ==
    /\ pc = "permuted" /\ friends # first.friends
    /\ ret \in Catalog /\ ret = first.ret
    /\ Overlapping(friends, ret) = 1

\* C8: within one call of dfs no item's adjacency set is iterated twice,
\* and the call returns: while it runs a step is always possible, and every
\* step lowers by one a measure that is never negative (the adjacency
\* members still to iterate, plus one per frame and per unvisited key).
IteratedOnce == \A n \in DOMAIN expanded : expanded[n] <= 1
RECURSIVE FrameWork(_, _)
FrameWork(st, k) ==
    IF k = 0 THEN 0 ELSE Cardinality(st[k].todo) + 1 + FrameWork(st, k - 1)
RECURSIVE KeyWork(_, _)
KeyWork(g, keys) ==
    IF keys = {} THEN 0
    ELSE LET n == CHOOSE x \in keys : TRUE
         IN Cardinality(g[n]) + 1 + KeyWork(g, keys \ {n})
Work(st, g, vis) == FrameWork(st, Len(st)) + KeyWork(g, DOMAIN g \ vis)
C8_DfsTerminates ==
    /\ [](IteratedOnce /\ (pc = "dfs" => ENABLED (DfsStep \/ DfsReturn \/ DfsDone)))
    /\ [][pc = "dfs" => Work(stack', graph', visited') = Work(stack, graph, visited) - 1]_vars
C8_Witness ==
    /\ pc = "done" /\ entry = "dfs"
    /\ Cardinality(component) = 3
    /\ \A a, b \in component : Similar(a, b) \/ a = b
    /\ \A n \in component : expanded[n] = 1

\* C9: after build_graph returned, no call of dfs or calculate_score and no
\* step of recommend_movie changes the graph.
C9_GraphReadOnly == pc # "start" => graph = built
\* What is left of C9 for a start or candidate that is a key of the graph.
GraphReadOnlyForKeys ==
    (pc # "start" /\ (entry = "recommend_movie" \/ movie \in DOMAIN built)) => graph = built

\* C10: no division by a zero count or a zero novelty is reached, and the
\* degenerate cases are returned as (0, 0).
Degenerate(m) == Popularity(friends, m) = 0 \/ Overlapping(friends, m) = 0
C10_NoDivisionByZero ==
    /\ sc.err # ZeroDivisionError
    /\ recommendations.err # ZeroDivisionError
    /\ ret # ZeroDivisionError
    /\ (entry = "recommend_movie" /\ pc = "loop" /\ i > 1 /\ Degenerate(movies[i - 1]))
         => (sc.score = 0 /\ sc.uniqueness = Zero)
    /\ (entry = "recommend_movie" /\ pc = "loop" /\ i > 1 /\ ~Degenerate(movies[i - 1]))
         => (sc.uniqueness # Zero /\ recommendations.recs # <<>>)
C10_Witness ==
    /\ Returned /\ Len(movies) = 2
    /\ Degenerate(movies[1])
    /\ ~Degenerate(movies[2])
    /\ ret = movies[2]
====
